---- MODULE Spec2Model ----
(***************************************************************************)
(* Model of scraper.py's bounded-concurrency fetch engine: get_async, its  *)
(* inner gather_with_concurrency / sem_task (the semaphore gate) and get   *)
(* (the per-endpoint retry loop with exponential backoff).                 *)
(*                                                                         *)
(* One asyncio event loop runs all coroutines: a step of the model is what *)
(* one task executes between two suspension points (await).                *)
(* Durations are counted in ticks of 1/TicksPerUnit time unit so that the  *)
(* 0.5 settle delay and 2 ** -1 are integers.                              *)
(***************************************************************************)
EXTENDS Integers, Sequences, FiniteSets, Bags, TLC

\* ---------------------------------------------------------------- bounds
MaxEndpoints == 3      \* longest input list of endpoints
MaxLimit == 2          \* largest max_concurrent_requests

\* ------------------------------------------------------ program constants
max_retries == 8       \* get: max_retries
backoff_factor == 1    \* get: backoff_delay_async(1, ...)
TicksPerUnit == 2      \* asyncio.sleep(0.5) is one tick

URLS == {"A", "B"}
Limits == -1 .. MaxLimit

SeqsUpTo(S, n) == UNION {[1 .. m -> S] : m \in 0 .. n}
Range(s) == {s[i] : i \in DOMAIN s}

\* --------------------------------------------------------- the transport
\* Exceptions a request can raise: timeout, connection failure, DNS failure,
\* non-2xx status (raise_for_status=True), failure while reading the body.
NoError == [type |-> "None", msg |-> ""]
TransportErrors ==
    << [type |-> "TimeoutError", msg |-> ""],
       [type |-> "ClientConnectorError", msg |-> "Cannot connect to host"],
       [type |-> "ClientConnectorDNSError", msg |-> "Name or service not known"],
       [type |-> "ClientResponseError", msg |-> "500, message='Internal Server Error'"],
       [type |-> "ClientPayloadError", msg |-> "Response payload is not completed"] >>
\* Python's exception hierarchy: every transport error derives from Exception.
ExceptionSubclasses ==
    {"TimeoutError", "ClientConnectorError", "ClientConnectorDNSError",
     "ClientResponseError", "ClientPayloadError", "ValueError"}

\* Mutant: type(error).__name__ instead of repr(error)
reprTypeOnly(error) == <<error.type, "">>

repr(error) == <<error.type, error.msg>>
str(error) == error.msg

NoBody == <<"">>
Sentinel == <<"{}">>
Payload(u, i) == <<"body", u, i>>

UrlIndex(u) == IF u = "A" THEN 0 ELSE 1
\* The mocked transport's script for endpoint u: attempts 1..k-1 fail, each
\* with the next kind of error, and attempt k (and later) succeeds; k =
\* max_retries + 1 is a transport that always fails.
ScriptFor(u, k) ==
    [i \in 1 .. max_retries |->
        IF i < k
        THEN [error |-> TransportErrors[((i + UrlIndex(u)) % Len(TransportErrors)) + 1],
              body |-> NoBody]
        ELSE [error |-> NoError, body |-> Payload(u, i)]]
Scripts == [URLS -> 1 .. max_retries + 1]

VARIABLES
    endpoints,                \* get_async's argument
    max_concurrent_requests,  \* get_async's argument
    script,                   \* the mocked transport: first succeeding attempt per url
    main,                     \* where get_async is: "called", "gathering", "returned", "raised"
    session,                  \* the aiohttp.ClientSession: "none", "open", "closed"
    tasklist,                 \* bag of the urls of the sem_task(get(url, session)) created
    semaphore,                \* asyncio.Semaphore's value
    holder,                   \* urls whose sem_task is inside `async with semaphore`
    pc,                       \* where each sem_task/get is
    number_of_retries_made,   \* get's loop variable
    errors,                   \* get's errors list
    requests,                 \* how many session.get calls the transport saw per url
    sleeps,                   \* the asyncio.sleep calls each task made, in order
    logger,                   \* bag of the records logged
    queue,                    \* as_completed: finished futures, in completion order
    results,                  \* the list comprehension's pairs, in arrival order
    result,                   \* get_async's return value
    run,                      \* which call of get_async this is
    prev,                     \* the previous call's return value
    epc,                      \* where extract_urls is: "idle", "fetching", "write_*", "done"
    body,                     \* the lines of the list served at the endpoint
    non_ips,                  \* extract_urls' set non_ips
    ips,                      \* extract_urls' set ips
    fqdns,                    \* extract_urls' set fqdns
    registered_domains,       \* extract_urls' set registered_domains
    files                     \* the four output files

extractVars == <<epc, body, non_ips, ips, fqdns, registered_domains, files>>

vars == <<endpoints, max_concurrent_requests, script, main, session, tasklist, semaphore,
          holder, pc, number_of_retries_made, errors, requests, sleeps, logger,
          queue, results, result, run, prev, extractVars>>

EmptyDict == [u \in {} |-> NoBody]

Fresh ==
    /\ main = "called"
    /\ session = "none"
    /\ tasklist = EmptyBag
    /\ semaphore = 0
    /\ holder = {}
    /\ pc = [u \in URLS |-> "none"]
    /\ number_of_retries_made = [u \in URLS |-> 0]
    /\ errors = [u \in URLS |-> <<>>]
    /\ requests = [u \in URLS |-> 0]
    /\ sleeps = [u \in URLS |-> <<>>]
    /\ queue = <<>>
    /\ results = <<>>
    /\ result = EmptyDict

\* urls.txt, ips.txt, urls_pihole.txt, urls_UBL.txt as they are before the run
FileNames == {"urls.txt", "ips.txt", "urls_pihole.txt", "urls_UBL.txt"}
PreviousFile == [written |-> FALSE, lines |-> {"previous content"}]

\* extract_urls' locals before anything was parsed or written
FreshExtract ==
    /\ non_ips = {}
    /\ ips = {}
    /\ fqdns = {}
    /\ registered_domains = {}
    /\ files = [f \in FileNames |-> PreviousFile]

Init ==
    /\ epc = "idle"
    /\ body = <<>>
    /\ FreshExtract
    /\ endpoints \in SeqsUpTo(URLS, MaxEndpoints)
    /\ max_concurrent_requests \in Limits
    /\ script \in {s \in Scripts : \A u \in URLS \ Range(endpoints) : s[u] = 1}
    /\ Fresh
    /\ logger = EmptyBag
    /\ run = 1
    /\ prev = [result |-> EmptyDict, order |-> <<>>, limit |-> 0]

\* ------------------------------------------------------------ get_async
\* Mutant: only the first endpoint of the list is kept.
DedupFirstOnly(eps) == IF eps = <<>> THEN {} ELSE {eps[1]}

\* set(endpoints)
Dedup(eps) == Range(eps)

\* Mutant: one coroutine per element of endpoints.
CoroutinesPerOccurrence(eps) ==
    [u \in Range(eps) |-> Cardinality({i \in DOMAIN eps : eps[i] = u})]

\* [get(url, session) for url in set(endpoints)], by url
Coroutines(eps) == SetToBag(Dedup(eps))

\* asyncio.Semaphore(value) raises ValueError when value < 0.
SemaphoreRejects(value) == value < 0

\* Mutant: the session block is left before gather_with_concurrency is awaited.
get_async_enter_session_left ==
    /\ main = "called"
    /\ session' = "closed"
    /\ IF SemaphoreRejects(max_concurrent_requests)
       THEN /\ main' = "raised"
            /\ UNCHANGED <<tasklist, semaphore, pc>>
       ELSE /\ main' = "gathering"
            /\ tasklist' = Coroutines(endpoints)
            /\ semaphore' = max_concurrent_requests
            /\ pc' = [u \in URLS |->
                        IF BagIn(u, Coroutines(endpoints)) THEN "waiting" ELSE "none"]
    /\ UNCHANGED <<endpoints, max_concurrent_requests, script, holder,
                   number_of_retries_made, errors, requests, sleeps, logger,
                   queue, results, result, run, prev, extractVars>>

\* `async with ClientSession(...) as session`, the get(url, session) coroutines
\* for set(endpoints), then gather_with_concurrency up to its first await:
\* the semaphore and one sem_task per coroutine, all scheduled by as_completed.
get_async_enter ==
    /\ main = "called"
    /\ IF SemaphoreRejects(max_concurrent_requests)
       THEN /\ main' = "raised"
            /\ session' = "closed"
            /\ UNCHANGED <<tasklist, semaphore, pc>>
       ELSE /\ main' = "gathering"
            /\ session' = "open"
            /\ tasklist' = Coroutines(endpoints)
            /\ semaphore' = max_concurrent_requests
            /\ pc' = [u \in URLS |->
                        IF BagIn(u, Coroutines(endpoints)) THEN "waiting" ELSE "none"]
    /\ UNCHANGED <<endpoints, max_concurrent_requests, script, holder,
                   number_of_retries_made, errors, requests, sleeps, logger,
                   queue, results, result, run, prev, extractVars>>

\* ------------------------------------------------------------- sem_task
\* Mutant: acquire blocks one permit early.
CanAcquireAboveOne(value) == value > 1

\* Mutant: acquire never blocks.
CanAcquireAlways(value) == TRUE

\* Semaphore.acquire proceeds without blocking only while the value is positive.
CanAcquire(value) == value > 0

SleepCall(by, ticks) == [by |-> by, ticks |-> ticks]

\* Mutant: no sleep in the semaphore block, get starts at once.
sem_task_acquire_no_sleep(u) ==
    /\ main = "gathering"
    /\ pc[u] = "waiting"
    /\ CanAcquire(semaphore)
    /\ semaphore' = semaphore - 1
    /\ holder' = holder \cup {u}
    /\ requests' = [requests EXCEPT ![u] = @ + 1]
    /\ pc' = [pc EXCEPT ![u] = "attempting"]
    /\ UNCHANGED <<endpoints, max_concurrent_requests, script, main, session, tasklist,
                   number_of_retries_made, errors, sleeps, logger, queue,
                   results, result, run, prev, extractVars>>

\* `async with semaphore:` entered, then `await asyncio.sleep(0.5)` started.
sem_task_acquire(u) ==
    /\ main = "gathering"
    /\ pc[u] = "waiting"
    /\ CanAcquire(semaphore)
    /\ semaphore' = semaphore - 1
    /\ holder' = holder \cup {u}
    /\ sleeps' = [sleeps EXCEPT ![u] = Append(@, SleepCall("sem_task", TicksPerUnit \div 2))]
    /\ pc' = [pc EXCEPT ![u] = "settle"]
    /\ UNCHANGED <<endpoints, max_concurrent_requests, script, main, session, tasklist,
                   number_of_retries_made, errors, requests, logger, queue,
                   results, result, run, prev, extractVars>>

\* Mutant: the semaphore block ends with the sleep, `return await task` is
\* outside it.
sem_task_settled_outside(u) ==
    /\ main = "gathering"
    /\ pc[u] = "settle"
    /\ semaphore' = semaphore + 1
    /\ holder' = holder \ {u}
    /\ errors' = [errors EXCEPT ![u] = <<>>]
    /\ number_of_retries_made' = [number_of_retries_made EXCEPT ![u] = 0]
    /\ requests' = [requests EXCEPT ![u] = @ + 1]
    /\ pc' = [pc EXCEPT ![u] = "attempting"]
    /\ UNCHANGED <<endpoints, max_concurrent_requests, script, main, session, tasklist,
                   sleeps, logger, queue, results, result, run, prev, extractVars>>

\* The sleep is over: `return await task` starts get(url, session), which
\* runs to its first session.get.
sem_task_settled(u) ==
    /\ main = "gathering"
    /\ pc[u] = "settle"
    /\ errors' = [errors EXCEPT ![u] = <<>>]
    /\ number_of_retries_made' = [number_of_retries_made EXCEPT ![u] = 0]
    /\ requests' = [requests EXCEPT ![u] = @ + 1]
    /\ pc' = [pc EXCEPT ![u] = "attempting"]
    /\ UNCHANGED <<endpoints, max_concurrent_requests, script, main, session, tasklist,
                   semaphore, holder, sleeps, logger, queue, results, result,
                   run, prev, extractVars>>

\* ------------------------------------------------------------------ get
\* The mocked transport answers the i-th request for u from u's script.
Response(u, i) == ScriptFor(u, script[u])[IF i > max_retries THEN max_retries ELSE i]

\* Mutant: `except aiohttp.ClientError as error` (a timeout is none).
CaughtClientErrorOnly(error) == error.type \in ExceptionSubclasses \ {"TimeoutError"}

\* `except Exception as error`
Caught(error) == error.type \in ExceptionSubclasses

\* Mutant: the loop goes on to the next request without waiting.
ShouldBackoffNever(n) == FALSE

\* Mutant: the delay is not skipped after the final attempt.
ShouldBackoffAlways(n) == TRUE

\* `if number_of_retries_made != max_retries - 1`
ShouldBackoff(n) == n # max_retries - 1

\* Mutant: range(max_retries + 1)
LoopContinuesOneMore(n) == n + 1 < max_retries + 1

\* `for number_of_retries_made in range(max_retries)`: is there an iteration after n?
LoopContinues(n) == n + 1 < max_retries

\* backoff_factor * (2 ** (number_of_retries_made - 1)), in ticks
backoff_delay_async(factor, n) ==
    IF n >= 1
    THEN factor * TicksPerUnit * 2 ^ (n - 1)
    ELSE (factor * TicksPerUnit) \div 2 ^ (1 - n)

\* Mutant: the attempt is logged 0-based.
WarningRecordZeroBased(error, n) == [level |-> "WARNING", text |-> str(error), attempt |-> n]

\* logger.warning("%s | Attempt %d failed", error, number_of_retries_made + 1)
WarningRecord(error, n) == [level |-> "WARNING", text |-> str(error), attempt |-> n + 1]

\* logger.error("URL: %s GET request failed! Errors: %s", url, errors)
ErrorRecord(url, errs) == [level |-> "ERROR", url |-> url, errors |-> errs]

Log(bag, record) == bag (+) SetToBag({record})

Returned(value) == [exception |-> NoError, value |-> value]
Raised(u, error) == [exception |-> error, value |-> <<u, NoBody>>]

\* Mutant: the permit is not given back.
ReleaseLeaks(value) == value

\* Semaphore.release
Release(value) == value + 1

\* get has returned or raised: sem_task leaves `async with semaphore` and its
\* future completes, which as_completed puts on its queue.
Finish(u, outcome) ==
    /\ semaphore' = Release(semaphore)
    /\ holder' = holder \ {u}
    /\ queue' = Append(queue, outcome)
    /\ pc' = [pc EXCEPT ![u] = "done"]

\* The end of the loop body for iteration n: the next iteration's session.get,
\* or after the last iteration logger.error and `return (url, b"{}")`.
NextIteration(u, n, log) ==
    IF LoopContinues(n)
    THEN /\ number_of_retries_made' = [number_of_retries_made EXCEPT ![u] = n + 1]
         /\ requests' = [requests EXCEPT ![u] = @ + 1]
         /\ pc' = [pc EXCEPT ![u] = "attempting"]
         /\ logger' = log
         /\ UNCHANGED <<semaphore, holder, queue>>
    ELSE /\ logger' = Log(log, ErrorRecord(u, errors'[u]))
         /\ Finish(u, Returned(<<u, Sentinel>>))
         /\ UNCHANGED <<number_of_retries_made, requests>>

\* The request of iteration number_of_retries_made[u] is over: the body was
\* read and get returns it, or the request raised.
get_response(u) ==
    /\ main = "gathering"
    /\ pc[u] = "attempting"
    /\ LET resp == Response(u, requests[u])
           n == number_of_retries_made[u]
       IN  IF resp.error = NoError
           THEN /\ Finish(u, Returned(<<u, resp.body>>))
                /\ UNCHANGED <<number_of_retries_made, errors, requests, sleeps, logger>>
           ELSE IF Caught(resp.error)
           THEN /\ errors' = [errors EXCEPT ![u] = Append(@, repr(resp.error))]
                /\ IF ShouldBackoff(n)
                   THEN /\ sleeps' = [sleeps EXCEPT ![u] = Append(@,
                               SleepCall("backoff_delay_async",
                                         backoff_delay_async(backoff_factor, n)))]
                        /\ logger' = Log(logger, WarningRecord(resp.error, n))
                        /\ pc' = [pc EXCEPT ![u] = "backoff"]
                        /\ UNCHANGED <<number_of_retries_made, requests, semaphore,
                                       holder, queue>>
                   ELSE /\ NextIteration(u, n, Log(logger, WarningRecord(resp.error, n)))
                        /\ UNCHANGED sleeps
           ELSE /\ Finish(u, Raised(u, resp.error))
                /\ UNCHANGED <<number_of_retries_made, errors, requests, sleeps, logger>>
    /\ UNCHANGED <<endpoints, max_concurrent_requests, script, main, session, tasklist,
                   results, result, run, prev, extractVars>>

\* backoff_delay_async's sleep is over: the loop goes on.
get_backoff_done(u) ==
    /\ main = "gathering"
    /\ pc[u] = "backoff"
    /\ NextIteration(u, number_of_retries_made[u], logger)
    /\ UNCHANGED <<endpoints, max_concurrent_requests, script, main, session, tasklist,
                   errors, sleeps, results, result, run, prev, extractVars>>

\* ------------------------------------------------ gather_with_concurrency
\* Mutant: the values, in arrival order, are zipped with the keys in sorted order.
dictZipSorted(pairs) ==
    LET keys == {pairs[i][1] : i \in DOMAIN pairs}
    IN  [u \in keys |-> pairs[Cardinality({v \in keys : UrlIndex(v) <= UrlIndex(u)})][2]]

\* dict(pairs): the last pair of a key wins
dict(pairs) ==
    [u \in {pairs[i][1] : i \in DOMAIN pairs} |->
        pairs[CHOOSE i \in DOMAIN pairs :
                /\ pairs[i][1] = u
                /\ \A j \in DOMAIN pairs : pairs[j][1] = u => j <= i][2]]

\* `await f` for the next future of as_completed: its value joins the list,
\* or its exception leaves gather_with_concurrency, the session block and get_async.
gather_next ==
    /\ main = "gathering"
    /\ queue # <<>>
    /\ queue' = Tail(queue)
    /\ IF Head(queue).exception = NoError
       THEN /\ results' = Append(results, Head(queue).value)
            /\ UNCHANGED <<main, session>>
       ELSE /\ main' = "raised"
            /\ session' = "closed"
            /\ UNCHANGED results
    /\ UNCHANGED <<endpoints, max_concurrent_requests, script, tasklist, semaphore,
                   holder, pc, number_of_retries_made, errors, requests, sleeps,
                   logger, result, run, prev, extractVars>>

\* Every future of as_completed was awaited: the dict is built, the session
\* block is left and get_async returns.
get_async_return ==
    /\ main = "gathering"
    /\ Len(results) = BagCardinality(tasklist)
    /\ result' = dict(results)
    /\ session' = "closed"
    /\ main' = "returned"
    /\ UNCHANGED <<endpoints, max_concurrent_requests, script, tasklist, semaphore,
                   holder, pc, number_of_retries_made, errors, requests, sleeps,
                   logger, queue, results, run, prev, extractVars>>

Next ==
    \/ get_async_enter
    \/ \E u \in URLS : sem_task_acquire(u)
    \/ \E u \in URLS : sem_task_settled(u)
    \/ \E u \in URLS : get_response(u)
    \/ \E u \in URLS : get_backoff_done(u)
    \/ gather_next
    \/ get_async_return

Spec == Init /\ [][Next]_vars

\* A second call of get_async with the same endpoints, against the same mocked
\* transport replaying its script, under any limit.
Rerun ==
    /\ main = "returned"
    /\ run = 1
    /\ run' = 2
    /\ prev' = [result |-> result, order |-> results, limit |-> max_concurrent_requests]
    /\ max_concurrent_requests' \in Limits
    /\ main' = "called"
    /\ session' = "none"
    /\ tasklist' = EmptyBag
    /\ semaphore' = 0
    /\ holder' = {}
    /\ pc' = [u \in URLS |-> "none"]
    /\ number_of_retries_made' = [u \in URLS |-> 0]
    /\ errors' = [u \in URLS |-> <<>>]
    /\ requests' = [u \in URLS |-> 0]
    /\ sleeps' = [u \in URLS |-> <<>>]
    /\ queue' = <<>>
    /\ results' = <<>>
    /\ result' = EmptyDict
    /\ UNCHANGED <<endpoints, script, logger, extractVars>>

NextTwoRuns == Next \/ Rerun

TwoRuns == Init /\ [][NextTwoRuns]_vars

\* The event loop runs a ready task and fires a due timer, and every request
\* ends within its timeout: some step is taken whenever one is possible.
LiveSpec == Init /\ [][Next]_vars /\ WF_vars(Next)

\* --------------------------------------------------------- extract_urls
MaxLines == 2                          \* longest list served
default_max_concurrent_requests == 5   \* get_async's default

\* endpoint = "https://www.usom.gov.tr/url-list.txt"
ListEndpoint == "A"

\* Lines a list can hold, each with what tldextract.extract gives for it
\* (domain, fqdn, registered_domain) and whether socket.inet_pton(AF_INET,
\* domain) accepts the domain.
Line(url, domain, fqdn, registered_domain, ipv4) ==
    [url |-> url, domain |-> domain, fqdn |-> fqdn,
     registered_domain |-> registered_domain, ipv4 |-> ipv4]
Lines ==
    {Line("", "", "", "", FALSE),
     Line("1.2.3.4", "1.2.3.4", "", "", TRUE),
     Line("localhost", "localhost", "", "", FALSE),
     Line("com", "", "", "", FALSE),
     Line("a.example.com/x", "example", "a.example.com", "example.com", FALSE),
     Line("example.org", "example", "example.org", "example.org", FALSE)}
\* b"{}".decode().split("\n") is the one line "{}"
BraceLine == Line("{}", "{}", "", "", FALSE)
Listings == SeqsUpTo(Lines, MaxLines)

\* data.decode().split("\n"), each line stripped
Decode(data) == IF data = Sentinel THEN <<BraceLine>> ELSE body

\* Mutant: the fetched data is parsed whatever it is.
IsFetchedAlways(data) == TRUE

\* `if data != b"{}"`
IsFetched(data) == data # Sentinel

\* `if domain and not fqdn`
DomainOnly(line) == line.domain # "" /\ line.fqdn = ""

\* The for loop over urls: what it adds to each of the four sets.
ParsedNonIps(lines) ==
    {l.url : l \in {x \in Range(lines) :
        \/ DomainOnly(x) /\ ~x.ipv4 /\ x.url # ""
        \/ ~DomainOnly(x) /\ x.fqdn # ""}}
ParsedIps(lines) == {l.domain : l \in {x \in Range(lines) : DomainOnly(x) /\ x.ipv4}}
ParsedFqdns(lines) ==
    {l.fqdn : l \in {x \in Range(lines) : ~DomainOnly(x) /\ x.fqdn # ""}}
ParsedRegisteredDomains(lines) ==
    {l.registered_domain : l \in {x \in Range(lines) : ~DomainOnly(x) /\ x.fqdn # ""}}

InfoRecord(count, filename) == [level |-> "INFO", count |-> count, filename |-> filename]
NoUrlsRecord == [level |-> "ERROR", text |-> "No URLs found."]
WrittenFile(lines) == [written |-> TRUE, lines |-> lines]

\* get_async([endpoint]) has returned: the data is parsed when it is not the
\* sentinel, and with nothing found the error is logged and extract_urls ends.
extract_urls_parse ==
    /\ epc = "fetching"
    /\ main = "returned"
    /\ LET data == result[ListEndpoint]
           lines == IF IsFetched(data) THEN Decode(data) ELSE <<>>
       IN  /\ non_ips' = ParsedNonIps(lines)
           /\ ips' = ParsedIps(lines)
           /\ fqdns' = ParsedFqdns(lines)
           /\ registered_domains' = ParsedRegisteredDomains(lines)
           /\ IF ParsedNonIps(lines) = {} /\ ParsedIps(lines) = {}
              THEN /\ logger' = Log(logger, NoUrlsRecord)
                   /\ epc' = "done"
              ELSE /\ logger' = logger
                   /\ epc' = "write_urls"
    /\ UNCHANGED <<endpoints, max_concurrent_requests, script, main, session, tasklist,
                   semaphore, holder, pc, number_of_retries_made, errors, requests,
                   sleeps, queue, results, result, run, prev, body, files>>

\* with open(filename, "w") as f: the file is truncated, the lines written
\* and the count logged.
WriteFile(at, filename, lines, next) ==
    /\ epc = at
    /\ files' = [files EXCEPT ![filename] = WrittenFile(lines)]
    /\ logger' = Log(logger, InfoRecord(Cardinality(lines), filename))
    /\ epc' = next
    /\ UNCHANGED <<endpoints, max_concurrent_requests, script, main, session, tasklist,
                   semaphore, holder, pc, number_of_retries_made, errors, requests,
                   sleeps, queue, results, result, run, prev, body, non_ips, ips,
                   fqdns, registered_domains>>

extract_urls_write_urls == WriteFile("write_urls", "urls.txt", non_ips, "write_ips")
extract_urls_write_ips == WriteFile("write_ips", "ips.txt", ips, "write_pihole")
extract_urls_write_pihole ==
    WriteFile("write_pihole", "urls_pihole.txt", fqdns, "write_UBL")
extract_urls_write_UBL ==
    WriteFile("write_UBL", "urls_UBL.txt",
              {<<"*://*.", r, "/*">> : r \in registered_domains}, "done")

\* extract_urls has called get_async([endpoint]) with the default limit.
InitExtract ==
    /\ epc = "fetching"
    /\ body \in Listings
    /\ FreshExtract
    /\ endpoints = <<ListEndpoint>>
    /\ max_concurrent_requests = default_max_concurrent_requests
    /\ script \in {s \in Scripts : \A u \in URLS \ {ListEndpoint} : s[u] = 1}
    /\ Fresh
    /\ logger = EmptyBag
    /\ run = 1
    /\ prev = [result |-> EmptyDict, order |-> <<>>, limit |-> 0]

NextExtract ==
    \/ Next
    \/ extract_urls_parse
    \/ extract_urls_write_urls
    \/ extract_urls_write_ips
    \/ extract_urls_write_pihole
    \/ extract_urls_write_UBL

ExtractSpec == InitExtract /\ [][NextExtract]_vars

\* =================================================================== claims
Holding(u) == u \in holder
Active(u) == pc[u] \in {"settle", "attempting", "backoff"}
BackoffWaits(u) == SelectSeq(sleeps[u], LAMBDA s : s.by = "backoff_delay_async")

\* C1: when get_async returns, the keys of the result mapping are exactly the
\* distinct input endpoints, and the collected pairs hold exactly one pair per
\* key, whatever the transport did.
C1_KeysAreDistinctEndpoints ==
    main = "returned" =>
        /\ DOMAIN result = Range(endpoints)
        /\ \A u \in Range(endpoints) :
              Cardinality({i \in DOMAIN results : results[i][1] = u}) = 1
        /\ Len(results) = Cardinality(Range(endpoints))

C1_Witness ==
    /\ main = "returned"
    /\ endpoints = <<"A", "A", "B">>
    /\ result["A"] # Sentinel
    /\ result["B"] = Sentinel

\* C2: at every instant the number of sem_tasks inside the semaphore block is
\* at most max_concurrent_requests (for a semaphore that could be created).
C2_AtMostLimitHolders ==
    ~SemaphoreRejects(max_concurrent_requests) =>
        Cardinality({u \in URLS : Holding(u)}) <= max_concurrent_requests

C2_Witness ==
    /\ max_concurrent_requests = 1
    /\ \E u, v \in URLS : Holding(u) /\ pc[u] = "backoff" /\ pc[v] = "waiting"

\* C3: a task holds its permit exactly while it settles, attempts and backs
\* off; a request is only issued by a holder; a permit is only given up on
\* reaching the terminal state; so the tasks that started and are not
\* terminal never outnumber max_concurrent_requests.
C3_PermitCoversRetrySequence ==
    /\ [](\A u \in URLS : Active(u) <=> Holding(u))
    /\ [](~SemaphoreRejects(max_concurrent_requests) =>
            Cardinality({u \in URLS : sleeps[u] # <<>> /\ pc[u] # "done"})
                <= max_concurrent_requests)
    /\ [][\A u \in URLS :
            /\ requests'[u] > requests[u] => Holding(u) /\ Holding(u)'
            /\ Holding(u) /\ ~Holding(u)' => pc'[u] = "done"
            /\ sleeps'[u] # sleeps[u] => Holding(u)']_vars

C3_Witness ==
    /\ max_concurrent_requests = 1
    /\ \E u, v \in URLS :
          /\ Holding(u) /\ pc[u] = "backoff" /\ requests[u] = 3
          /\ pc[v] = "waiting"

\* C4: get_async returns only when every task it spawned is terminal; and with
\* a positive limit, under fair scheduling, every distinct endpoint's task
\* gets its permit and ends, and get_async returns.
C4_ReturnsAfterAllTerminal ==
    /\ [](main = "returned" =>
            /\ \A u \in URLS : pc[u] \in {"none", "done"}
            /\ \A u \in Range(endpoints) : pc[u] = "done")
    /\ (max_concurrent_requests > 0 =>
            <>(/\ main = "returned"
               /\ \A u \in Range(endpoints) : pc[u] = "done" /\ sleeps[u] # <<>>))

C4_Witness ==
    /\ main = "returned"
    /\ max_concurrent_requests = 1
    /\ Range(endpoints) = URLS
    /\ \E u, v \in URLS : requests[u] = max_retries /\ result[u] = Sentinel
                           /\ requests[v] = 2 /\ result[v] # Sentinel

\* C5: at most max_retries requests per endpoint and none after a success:
\* when the transport first succeeds on attempt k <= max_retries, exactly k
\* requests are made and the value is attempt k's payload; when all
\* max_retries attempts fail, exactly max_retries requests are made and the
\* value is the sentinel.
C5_AttemptsAndValue ==
    \A u \in URLS :
        /\ requests[u] <= max_retries
        /\ requests[u] <= script[u]
        /\ \A i \in 1 .. requests[u] - 1 : Response(u, i).error # NoError
        /\ pc[u] = "done" =>
              requests[u] = IF script[u] <= max_retries THEN script[u] ELSE max_retries
        /\ main = "returned" /\ u \in Range(endpoints) =>
              result[u] = IF script[u] <= max_retries
                          THEN Response(u, script[u]).body
                          ELSE Sentinel

C5_Witness ==
    /\ main = "returned"
    /\ \E u, v \in URLS :
          /\ script[u] = 3 /\ requests[u] = 3 /\ result[u] = Payload(u, 3)
          /\ script[v] = max_retries + 1 /\ requests[v] = max_retries
          /\ result[v] = Sentinel

RECURSIVE TotalTicks(_)
TotalTicks(calls) == IF calls = <<>> THEN 0 ELSE Head(calls).ticks + TotalTicks(Tail(calls))

\* C6: the wait after the n-th failed attempt of an endpoint lasts
\* 1 * 2^(n-1) time units (1, 2, 4, ..., 64), and an endpoint whose transport
\* always fails has waited 127 time units over its 7 waits.
C6_WaitsDoubleFromOne ==
    \A u \in URLS :
        /\ \A n \in DOMAIN BackoffWaits(u) :
              BackoffWaits(u)[n].ticks = 1 * 2 ^ (n - 1) * TicksPerUnit
        /\ pc[u] = "done" /\ script[u] = max_retries + 1 =>
              TotalTicks(BackoffWaits(u)) = 127 * TicksPerUnit

\* C7: waits happen only between two attempts of an endpoint: none before the
\* first request, one after each failed attempt but the last, none after a
\* success; k - 1 waits for a success on attempt k, max_retries - 1 for an
\* endpoint that exhausts its attempts.
C7_WaitsOnlyBetweenAttempts ==
    \A u \in URLS :
        LET waits == Len(BackoffWaits(u)) IN
        /\ pc[u] \in {"none", "waiting", "settle"} => waits = 0 /\ requests[u] = 0
        /\ pc[u] = "attempting" => waits = requests[u] - 1
        /\ pc[u] = "backoff" =>
              /\ waits = requests[u]
              /\ requests[u] < max_retries
              /\ Response(u, requests[u]).error # NoError
        /\ pc[u] = "done" =>
              /\ waits = requests[u] - 1
              /\ waits = IF script[u] <= max_retries THEN script[u] - 1
                                                     ELSE max_retries - 1

C7_Witness ==
    /\ main = "returned"
    /\ \E u, v \in URLS :
          /\ script[u] = 4 /\ Len(BackoffWaits(u)) = 3 /\ result[u] # Sentinel
          /\ script[v] = max_retries + 1 /\ Len(BackoffWaits(v)) = max_retries - 1
          /\ result[v] = Sentinel

\* C8: whatever kind of exception a request raises, it is recorded and
\* retried like any other; no task ends with an exception, get_async raises
\* only when the semaphore rejects the limit (before any request), and what
\* it returns maps every key to a response body or to the sentinel.
C8_FailuresContained ==
    /\ \A i \in DOMAIN queue : queue[i].exception = NoError
    /\ main = "raised" =>
          /\ SemaphoreRejects(max_concurrent_requests)
          /\ \A u \in URLS : requests[u] = 0
    /\ \A u \in URLS :
          /\ \A i \in DOMAIN errors[u] :
                /\ Response(u, i).error # NoError
                /\ errors[u][i] = repr(Response(u, i).error)
          /\ Len(errors[u]) =
                Cardinality({i \in 1 .. requests[u] :
                    /\ Response(u, i).error # NoError
                    /\ i = requests[u] => pc[u] # "attempting"})
    /\ main = "returned" =>
          \A u \in DOMAIN result :
              \/ result[u] = Sentinel
              \/ \E i \in 1 .. max_retries : result[u] = Response(u, i).body

C8_Witness ==
    /\ main = "returned"
    /\ Range(endpoints) = URLS
    /\ \E u, v \in URLS :
          /\ result[u] = Sentinel
          /\ {errors[u][i][1] : i \in DOMAIN errors[u]}
                = {TransportErrors[j].type : j \in DOMAIN TransportErrors}
          /\ result[v] = Payload(v, 2)
          /\ errors[v] = <<repr(TransportErrors[3])>>

\* The requests of u whose failure get has seen so far.
FailedAttempts(u) ==
    {i \in 1 .. requests[u] :
        /\ Response(u, i).error # NoError
        /\ i = requests[u] => pc[u] # "attempting"}
Exhausted(u) == pc[u] = "done" /\ Cardinality(FailedAttempts(u)) = max_retries
Warnings == {r \in BagToSet(logger) : r.level = "WARNING"}
ErrorEvents == {r \in BagToSet(logger) : r.level = "ERROR"}
ExpectedWarnings(u) ==
    {WarningRecord(Response(u, a).error, a - 1) : a \in FailedAttempts(u)}

\* One warning per failed attempt, with its 1-based attempt number and the
\* error's text.
OneWarningPerFailedAttempt ==
    /\ \A u \in URLS : \A r \in ExpectedWarnings(u) : BagIn(r, logger)
    /\ \A r \in Warnings :
          /\ CopiesIn(r, logger) = Cardinality({u \in URLS : r \in ExpectedWarnings(u)})
          /\ r.attempt \in 1 .. max_retries
    /\ \A u \in URLS :
          Exhausted(u) => Cardinality(ExpectedWarnings(u)) = max_retries

\* One error event, with the endpoint and all its errors, per endpoint that
\* exhausted its attempts and none for any other; it is there whenever the
\* endpoint's sentinel pair is.
OneErrorPerExhaustedEndpoint ==
    /\ \A u \in URLS :
          IF Exhausted(u)
          THEN /\ CopiesIn(ErrorRecord(u, [i \in 1 .. max_retries |->
                                               repr(Response(u, i).error)]), logger) = 1
               /\ Cardinality({r \in ErrorEvents : r.url = u}) = 1
          ELSE {r \in ErrorEvents : r.url = u} = {}
    /\ \A i \in DOMAIN queue :
          queue[i].value[2] = Sentinel =>
              \E r \in ErrorEvents : r.url = queue[i].value[1]
    /\ \A i \in DOMAIN results :
          results[i][2] = Sentinel => \E r \in ErrorEvents : r.url = results[i][1]
    /\ \A u \in URLS :
          pc[u] = "done" /\ script[u] <= max_retries =>
              {r \in ErrorEvents : r.url = u} = {}

\* C9 (as amended): one warning per failed attempt carrying the 1-based
\* attempt number and the error text, and nothing else: the endpoint is not
\* part of a warning; one error event per exhausted endpoint carrying the
\* endpoint and its full error list, none for an endpoint that succeeds, and
\* the error event precedes the sentinel pair.
C9_WarningsAndErrorEvents ==
    /\ OneWarningPerFailedAttempt
    /\ OneErrorPerExhaustedEndpoint
    /\ \A r \in Warnings : DOMAIN r = {"level", "text", "attempt"}

C9_Witness ==
    /\ main = "returned"
    /\ \E u, v \in URLS :
          /\ Exhausted(u)
          /\ pc[v] = "done" /\ script[v] = 3
          /\ BagCardinality(logger) = max_retries + 1 + 2

\* C9 (as claimed): as above, and every warning carries the endpoint too.
C9_WarningsCarryEndpoint ==
    /\ OneWarningPerFailedAttempt
    /\ OneErrorPerExhaustedEndpoint
    /\ \A r \in Warnings : {"url", "text", "attempt"} \subseteq DOMAIN r

\* C10: a second run with the same endpoints and the same scripted responses
\* returns the mapping the first run returned, whatever the two runs' limits
\* and completion orders.
C10_SameScriptSameResult ==
    run = 2 /\ main = "returned" => result = prev.result

C10_Witness ==
    /\ run = 2
    /\ main = "returned"
    /\ Range(endpoints) = URLS
    /\ results # prev.order
    /\ max_concurrent_requests # prev.limit
    /\ \E u, v \in URLS : result[u] = Sentinel /\ result[v] = Payload(v, 2)


\* C11: a max_concurrent_requests that is not positive aborts the run with an
\* error before any endpoint work: no task gets a permit, settles or sends a
\* request, and the run is never left with nothing to do but wait for permits.
C11_NonPositiveLimitAborts ==
    max_concurrent_requests <= 0 =>
        /\ \A u \in URLS : ~Holding(u) /\ sleeps[u] = <<>> /\ requests[u] = 0
        /\ main = "raised" \/ ENABLED Next


\* C12: each permit taken is given back exactly once when its task ends, on
\* success and on exhaustion alike: the semaphore's value and the holders
\* always add up to the capacity, a terminal task holds nothing, and when
\* get_async returns the value is the capacity again.
C12_PermitsGivenBackOnce ==
    main \in {"gathering", "returned"} =>
        /\ semaphore + Cardinality(holder) = max_concurrent_requests
        /\ semaphore \in 0 .. max_concurrent_requests
        /\ \A u \in URLS : pc[u] = "done" => ~Holding(u)
        /\ main = "returned" => semaphore = max_concurrent_requests /\ holder = {}

C12_Witness ==
    /\ main = "returned"
    /\ max_concurrent_requests = 1
    /\ semaphore = 1
    /\ Range(endpoints) = URLS
    /\ \E u, v \in URLS : result[u] = Sentinel /\ result[v] = Payload(v, 1)


\* C13: the attempts of one endpoint are strictly sequential: at most one of
\* its requests has no outcome yet, and request k+1 is sent only from the
\* backoff wait that followed the k-th failure (the first one from the settle
\* delay), one request at a time.
C13_AttemptsSequential ==
    /\ [](\A u \in URLS :
            /\ requests[u] - Len(errors[u]) \in {0, 1}
            /\ pc[u] = "attempting" => requests[u] - Len(errors[u]) = 1
            /\ pc[u] = "backoff" => requests[u] = Len(errors[u]))
    /\ [][\A u \in URLS :
            requests'[u] # requests[u] =>
                /\ requests'[u] = requests[u] + 1
                /\ \/ requests[u] = 0 /\ pc[u] = "settle"
                   \/ /\ pc[u] = "backoff"
                      /\ Len(errors[u]) = requests[u]
                      /\ Len(BackoffWaits(u)) = requests[u]]_vars

C13_Witness ==
    \E u \in URLS :
        /\ pc[u] = "attempting"
        /\ requests[u] = 3
        /\ Len(errors[u]) = 2
        /\ Len(BackoffWaits(u)) = 2


SettleSleeps(u) == SelectSeq(sleeps[u], LAMBDA s : s.by = "sem_task")

\* C14: a task sleeps the settle delay of half a time unit exactly once, as
\* the first thing after taking its permit and while holding it; its first
\* request comes only after that sleep and every later sleep is a backoff.
C14_SettleOnceBeforeFirstRequest ==
    \A u \in URLS :
        /\ Len(SettleSleeps(u)) <= 1
        /\ Holding(u) \/ pc[u] = "done" \/ requests[u] >= 1 =>
              /\ Len(SettleSleeps(u)) = 1
              /\ sleeps[u][1].by = "sem_task"
              /\ 2 * sleeps[u][1].ticks = TicksPerUnit
        /\ pc[u] = "settle" => Holding(u) /\ requests[u] = 0 /\ Len(sleeps[u]) = 1
        /\ pc[u] \in {"none", "waiting"} => sleeps[u] = <<>>
        /\ \A i \in 2 .. Len(sleeps[u]) : sleeps[u][i].by = "backoff_delay_async"

C14_Witness ==
    \E u \in URLS :
        /\ pc[u] = "attempting"
        /\ requests[u] = 4
        /\ Len(sleeps[u]) = 4
        /\ Len(SettleSleeps(u)) = 1


\* C15: exactly one task is created per distinct endpoint, however often it
\* occurs in the input, so an endpoint gets at most max_retries requests in
\* the whole run; and no step of get_async or gather_with_concurrency itself
\* sends a request.
C15_OneTaskPerDistinctEndpoint ==
    /\ [](main \in {"gathering", "returned"} =>
            \A u \in URLS :
                CopiesIn(u, tasklist) = IF u \in Range(endpoints) THEN 1 ELSE 0)
    /\ [](\A u \in URLS : requests[u] <= max_retries)
    /\ [][main' # main \/ results' # results \/ result' # result
            => requests' = requests]_vars

C15_Witness ==
    /\ main = "returned"
    /\ endpoints = <<"A", "B", "A">>
    /\ requests["A"] = max_retries
    /\ result["A"] = Sentinel
    /\ requests["B"] = 2


ErrorText(u, i) == <<Response(u, i).error.type, Response(u, i).error.msg>>

\* C16: every failure's description is appended to the endpoint's errors
\* before get moves on: the list always holds the descriptions of the failed
\* attempts so far, in attempt order, max_retries of them when the endpoint
\* is exhausted; and a list only changes by its own task's append.
C16_ErrorsListTracksFailures ==
    /\ [](\A u \in URLS :
            /\ Len(errors[u]) = Cardinality(FailedAttempts(u))
            /\ \A i \in DOMAIN errors[u] : errors[u][i] = ErrorText(u, i)
            /\ pc[u] = "backoff" => Len(errors[u]) = requests[u]
            /\ pc[u] = "attempting" => Len(errors[u]) = requests[u] - 1
            /\ pc[u] = "done" /\ script[u] > max_retries => Len(errors[u]) = max_retries)
    /\ [][\A u \in URLS :
            errors'[u] # errors[u] =>
                /\ pc[u] = "attempting"
                /\ errors'[u] = Append(errors[u], ErrorText(u, requests[u]))
                /\ \A v \in URLS \ {u} : errors'[v] = errors[v]]_vars

C16_Witness ==
    \E u, v \in URLS :
        /\ u # v
        /\ pc[u] = "done" /\ Len(errors[u]) = max_retries
        /\ pc[v] = "backoff" /\ Len(errors[v]) = 3


\* C17: the session is open whenever a request is sent or under way, and it
\* is closed only when no task is left running: with the mapping of every
\* distinct endpoint assembled when get_async returns (or with no task ever
\* started when the semaphore rejected the limit).
C17_SessionOpenWhileRequesting ==
    /\ [](\A u \in URLS : pc[u] = "attempting" => session = "open")
    /\ [](session = "closed" =>
            /\ \A u \in URLS : pc[u] \in {"none", "done"}
            /\ \/ /\ main = "returned"
                  /\ \A u \in Range(endpoints) : pc[u] = "done"
                  /\ DOMAIN result = Range(endpoints)
               \/ /\ main = "raised"
                  /\ SemaphoreRejects(max_concurrent_requests)
                  /\ \A u \in URLS : pc[u] = "none" /\ requests[u] = 0)
    /\ [][requests' # requests => session = "open" /\ session' = "open"]_vars

C17_Witness ==
    /\ session = "closed"
    /\ main = "returned"
    /\ Range(endpoints) = URLS
    /\ \E u, v \in URLS : requests[u] = max_retries /\ result[u] = Sentinel
                           /\ requests[v] = 5 /\ result[v] = Payload(v, 5)


Untouched(f) == ~files[f].written /\ files[f].lines = PreviousFile.lines
\* A line from which the loop takes a url or an ip.
YieldsUrlOrIp(line) ==
    \/ line.fqdn # ""
    \/ line.domain # "" /\ (line.ipv4 \/ line.url # "")
SomethingToExtract ==
    /\ main = "returned"
    /\ result[ListEndpoint] # Sentinel
    /\ \E i \in DOMAIN body : YieldsUrlOrIp(body[i])

\* C18: when the list's outcome is the sentinel, or its lines yield no url
\* and no ip, none of the four files is written or truncated and only "No
\* URLs found." is logged; a file is written only when a url or an ip was
\* extracted, and then extract_urls ends with all four written.
C18_FilesOnlyWhenSomethingExtracted ==
    /\ \A f \in FileNames : files[f].written => SomethingToExtract
    /\ epc = "fetching" => \A f \in FileNames : Untouched(f)
    /\ epc # "fetching" /\ ~SomethingToExtract =>
          /\ epc = "done"
          /\ \A f \in FileNames : Untouched(f)
          /\ CopiesIn(NoUrlsRecord, logger) = 1
          /\ \A r \in BagToSet(logger) : r.level # "INFO"
    /\ epc = "done" /\ SomethingToExtract =>
          /\ \A f \in FileNames : files[f].written
          /\ ~BagIn(NoUrlsRecord, logger)
          /\ files["urls.txt"].lines =
                {body[i].url : i \in {j \in DOMAIN body :
                    YieldsUrlOrIp(body[j]) /\ ~body[j].ipv4}}
          /\ files["ips.txt"].lines =
                {body[i].url : i \in {j \in DOMAIN body : body[j].ipv4}}

C18_Witness ==
    /\ epc = "done"
    /\ main = "returned"
    /\ result[ListEndpoint] = Sentinel
    /\ \E i \in DOMAIN body : YieldsUrlOrIp(body[i])
    /\ \A f \in FileNames : Untouched(f)
    /\ BagIn(NoUrlsRecord, logger)

====
